---- MODULE Spec2Model ----
(***************************************************************************)
(* TbLite: a per-individual infection state kept in the population table,  *)
(* mutated by two population-scope events (TblInfectionEvent and           *)
(* TblCureEvent) and summarised by two date-keyed dictionaries.            *)
(*                                                                         *)
(* Dates are day ordinals; day 0 is 2009-12-01, so that the month before   *)
(* the start date 2010-01-01 exists.  Months have their calendar lengths   *)
(* (no leap year falls in the modelled range), and adding or subtracting a *)
(* month clamps the day of month as pd.DateOffset(months=1) does.          *)
(* Probabilities are percentages: 10 is 0.1, 15 is 0.15, 100 is 1.0.       *)
(***************************************************************************)
EXTENDS Integers, FiniteSets, Sequences, TLC

\* ---------------------------------------------------------------- bounds
NumPeople == 2
\* ordinal of the last date at which an event is fired (89 is 2010-02-28)
LastDate == 89
MaxFirings == 3
\* months of scheduled firings explored after the start date
SchedMonths == 3

People == 1..NumPeople

\* ---------------------------------------------------------------- dates
\* pd.NaT, the absent date; smaller than every date ordinal
NaT == -1

\* length of the month with index m (0 = December 2009, 1 = January 2010)
DaysInMonth(m) ==
    LET c == ((m + 11) % 12) + 1
    IN  IF c = 2 THEN 28
        ELSE IF c \in {4, 6, 9, 11} THEN 30
        ELSE 31

RECURSIVE MonthStart(_)
\* ordinal of the first day of month m
MonthStart(m) == IF m <= 0 THEN 0 ELSE MonthStart(m - 1) + DaysInMonth(m - 1)

RECURSIVE MonthFrom(_, _)
MonthFrom(d, m) == IF d < MonthStart(m + 1) THEN m ELSE MonthFrom(d, m + 1)

\* the calendar of December 2009 to November 2011, tabulated: the first day
\* of each month and the month of each day
MonthStartTable == [m \in 0..24 |-> MonthStart(m)]
MonthOfTable == [d \in 0..(MonthStart(24) - 1) |-> MonthFrom(d, 0)]

\* month index and day of month of the date with ordinal d
MonthOf(d) == MonthOfTable[d]
DayOf(d) == d - MonthStartTable[MonthOf(d)] + 1

\* the date in month m with day of month dd, clamped to the month's length
MkDate(m, dd) ==
    MonthStartTable[m] + (IF dd > DaysInMonth(m) THEN DaysInMonth(m) ELSE dd) - 1

\* d + pd.DateOffset(months=k), k may be negative
AddMonths(d, k) == MkDate(MonthOf(d) + k, DayOf(d))

\* Date(2010, 1, 1)
start_date == MkDate(1, 1)

\* the dates at which the events are fired: the first and the last day of
\* every month from the start date to LastDate
FireDates ==
    {d \in start_date..LastDate :
        DayOf(d) = 1 \/ DayOf(d) = DaysInMonth(MonthOf(d))}

\* ---------------------------------------------------------------- state
VARIABLES
    pc,             \* position in the life cycle of the simulation
    parameters,     \* TbLite.parameters
    df,             \* population.props: one row per individual
    date,           \* sim.date
    incidence_tb,   \* TbLite.incidence_tb
    prevalence_tb,  \* TbLite.prevalence_tb
    queue,          \* next scheduled date of each regular event (NaT: none)
    nfired,         \* number of event firings so far
    onset,          \* history: date each individual last went uninfected -> infected
    last_selected,  \* history: date of the last infection firing that selected each individual
    last_cure,      \* history: date of the last cure firing (NaT: none)
    summary         \* tb_inc_and_prev, the table on_simulation_end builds

vars == <<pc, parameters, df, date, incidence_tb, prevalence_tb, queue,
          nfired, onset, last_selected, last_cure, summary>>

EmptyDict == [k \in {} |-> 0]

\* a dict replaced by {k: v} instead of updated
DictUpdate_replaces(dict, k, v) == [x \in {k} |-> v]

\* dict.update({k: v})
DictUpdate(dict, k, v) ==
    [x \in (DOMAIN dict) \cup {k} |-> IF x = k THEN v ELSE dict[x]]

\* list(dict.keys()): the keys in the order of their insertion, which is the
\* order of the dates, sim.date never going back
Keys(dict) ==
    LET RECURSIVE Sorted(_)
        Sorted(S) ==
            IF S = {} THEN <<>>
            ELSE LET k == CHOOSE x \in S : \A y \in S : x <= y
                 IN  <<k>> \o Sorted(S \ {k})
    IN  Sorted(DOMAIN dict)

\* dict.values(), in the order of Keys
Values(dict) == [n \in 1..Len(Keys(dict)) |-> dict[Keys(dict)[n]]]

\* no table built yet
NoFrame == [status |-> "none", rows |-> <<>>]

\* DataFrame raising ValueError whenever the index is empty
DataFrame_needs_rows(index, incidence, prevalence, total_pop) ==
    IF Len(index) = 0 \/ Len(incidence) # Len(index) \/ Len(prevalence) # Len(index)
    THEN [status |-> "ValueError", rows |-> <<>>]
    ELSE [status |-> "built",
          rows |-> [n \in 1..Len(index) |->
                       [date |-> index[n], incidence |-> incidence[n],
                        prevalence |-> prevalence[n], total_pop |-> total_pop]]]

\* pd.DataFrame(index=index, data={'incidence': incidence, 'prevalence':
\* prevalence, 'total_pop': total_pop}): the columns are paired with the index
\* by position, the scalar is repeated on every row, and a column whose
\* length differs from the index raises ValueError
DataFrame(index, incidence, prevalence, total_pop) ==
    IF Len(incidence) # Len(index) \/ Len(prevalence) # Len(index)
    THEN [status |-> "ValueError", rows |-> <<>>]
    ELSE [status |-> "built",
          rows |-> [n \in 1..Len(index) |->
                       [date |-> index[n], incidence |-> incidence[n],
                        prevalence |-> prevalence[n], total_pop |-> total_pop]]]

\* the row initialise_population writes for every individual
InitialRow ==
    [tbl_is_infected |-> FALSE, tbl_date_infected |-> NaT, tbl_date_cure |-> NaT]

\* df.tbl_is_infected.sum()
NumInfected(props) == Cardinality({i \in People : props[i].tbl_is_infected})

\* Choice with the two probabilities exchanged, p=[1 - p, p]
Choice_swapped(p, S) ==
    IF p < 0 \/ p > 100 THEN {}
    ELSE IF p = 100 THEN {{}}
    ELSE IF p = 0 THEN {S}
    ELSE SUBSET S

\* rng.choice([True, False], size=len(S), p=[p, 1 - p]) used as a boolean
\* index on S: the sets of individuals the draw can select.  No draw is
\* returned when p or 1 - p is negative: the call raises ValueError.
Choice(p, S) ==
    IF p < 0 \/ p > 100 THEN {}
    ELSE IF p = 0 THEN {{}}
    ELSE IF p = 100 THEN {S}
    ELSE SUBSET S

\* the parameter values a caller sets in place of the defaults, as the
\* analysis does for p_infection: the two values that determine the draw
\* (the defaults, like every value strictly between 0 and 1, allow every draw)
Overrides == {<<"p_infection", 0>>, <<"p_cure", 100>>}

\* values outside [0, 1] a caller sets before the run: 1.5 and -0.5
OutOfRangeOverrides == {<<"p_infection", 150>>, <<"p_cure", 0 - 50>>}

\* ---------------------------------------------------------------- actions
\* TbLite.__init__ has run; the population table has its three columns
Init ==
    /\ pc = "constructed"
    /\ parameters = EmptyDict
    /\ df = [i \in People |-> InitialRow]
    /\ date = start_date
    /\ incidence_tb = EmptyDict
    /\ prevalence_tb = EmptyDict
    /\ queue = [infection |-> NaT, cure |-> NaT]
    /\ nfired = 0
    /\ onset = [i \in People |-> NaT]
    /\ last_selected = [i \in People |-> NaT]
    /\ last_cure = NaT
    /\ summary = NoFrame

read_parameters ==
    /\ pc = "constructed"
    /\ pc' = "registered"
    /\ parameters' = [p_infection |-> 10, p_cure |-> 15]
    /\ UNCHANGED <<df, date, incidence_tb, prevalence_tb, queue, nfired,
                   onset, last_selected, last_cure,
                   summary>>

\* initialise_population marking everybody infected when the population was
\* initialised before
initialise_population_marks ==
    /\ pc \in {"registered", "populated"}
    /\ pc' = "populated"
    /\ df' = [i \in People |->
                 [InitialRow EXCEPT !.tbl_is_infected = (pc = "populated")]]
    /\ UNCHANGED <<parameters, date, incidence_tb, prevalence_tb, queue,
                   nfired, onset, last_selected, last_cure,
                   summary>>

initialise_population ==
    /\ pc \in {"registered", "populated"}
    /\ pc' = "populated"
    /\ df' = [i \in People |-> InitialRow]
    /\ UNCHANGED <<parameters, date, incidence_tb, prevalence_tb, queue,
                   nfired, onset, last_selected, last_cure,
                   summary>>

\* sim.modules['TbLite'].parameters[name] = v, by the caller between two
\* calls of the module
override_parameter(name, v) ==
    /\ pc \in {"populated", "running"}
    /\ parameters' = [parameters EXCEPT ![name] = v]
    /\ UNCHANGED <<pc, df, date, incidence_tb, prevalence_tb, queue, nfired,
                   onset, last_selected, last_cure,
                   summary>>

\* initialise_simulation with the offsets of the two events exchanged
initialise_simulation_swapped ==
    /\ pc = "populated"
    /\ pc' = "running"
    /\ queue' = [infection |-> AddMonths(date, 2), cure |-> AddMonths(date, 1)]
    /\ UNCHANGED <<parameters, df, date, incidence_tb, prevalence_tb, nfired,
                   onset, last_selected, last_cure,
                   summary>>

initialise_simulation ==
    /\ pc = "populated"
    /\ pc' = "running"
    /\ queue' = [infection |-> AddMonths(date, 1), cure |-> AddMonths(date, 2)]
    /\ UNCHANGED <<parameters, df, date, incidence_tb, prevalence_tb, nfired,
                   onset, last_selected, last_cure,
                   summary>>

\* InfectedRows without the write of tbl_date_infected
InfectedRows_no_date(props, sel, now) ==
    [i \in People |->
        IF i \in sel
        THEN [props[i] EXCEPT !.tbl_is_infected = TRUE]
        ELSE props[i]]

\* InfectedRows writing the date of the event's next firing
InfectedRows_next_date(props, sel, now) ==
    [i \in People |->
        IF i \in sel
        THEN [props[i] EXCEPT !.tbl_is_infected = TRUE,
                              !.tbl_date_infected = AddMonths(now, 1)]
        ELSE props[i]]

\* InfectedRows resetting the date of cure of the infected
InfectedRows_resets_cure(props, sel, now) ==
    [i \in People |->
        IF i \in sel
        THEN [props[i] EXCEPT !.tbl_is_infected = TRUE, !.tbl_date_infected = now,
                              !.tbl_date_cure = NaT]
        ELSE props[i]]

\* the rows after TblInfectionEvent.apply at date now selected sel
InfectedRows(props, sel, now) ==
    [i \in People |->
        IF i \in sel
        THEN [props[i] EXCEPT !.tbl_is_infected = TRUE, !.tbl_date_infected = now]
        ELSE props[i]]

\* TblInfectionEvent.apply counting the prevalence before the infections
TblInfectionEvent_apply_prev_before(now, sel) ==
    /\ UNCHANGED last_cure
    /\ sel \in Choice(parameters.p_infection, People)
    /\ df' = InfectedRows(df, sel, now)
    /\ incidence_tb' = DictUpdate(incidence_tb, now, Cardinality(sel))
    /\ prevalence_tb' = DictUpdate(prevalence_tb, now, NumInfected(df))
    /\ onset' = [i \in People |->
                    IF i \in sel /\ ~df[i].tbl_is_infected THEN now ELSE onset[i]]
    /\ last_selected' = [i \in People |-> IF i \in sel THEN now ELSE last_selected[i]]

\* TblInfectionEvent.apply with sim.date = now and the draw selecting sel
TblInfectionEvent_apply(now, sel) ==
    /\ UNCHANGED last_cure
    /\ sel \in Choice(parameters.p_infection, People)
    /\ df' = InfectedRows(df, sel, now)
    /\ incidence_tb' = DictUpdate(incidence_tb, now, Cardinality(sel))
    /\ prevalence_tb' = DictUpdate(prevalence_tb, now, NumInfected(df'))
    /\ onset' = [i \in People |->
                    IF i \in sel /\ ~df[i].tbl_is_infected THEN now ELSE onset[i]]
    /\ last_selected' = [i \in People |-> IF i \in sel THEN now ELSE last_selected[i]]

\* individuals_to_recover with >= in place of >
individuals_to_recover_nonstrict(props, now) ==
    {i \in People : /\ props[i].tbl_is_infected
                    /\ props[i].tbl_date_infected # NaT
                    /\ AddMonths(now, -1) >= props[i].tbl_date_infected}

\* individuals_to_recover without the condition on the date of infection
individuals_to_recover_all_infected(props, now) ==
    {i \in People : props[i].tbl_is_infected}

\* the rows of individuals_to_recover when sim.date = now
individuals_to_recover(props, now) ==
    {i \in People : /\ props[i].tbl_is_infected
                    /\ props[i].tbl_date_infected # NaT
                    /\ AddMonths(now, -1) > props[i].tbl_date_infected}

\* CuredRows clearing tbl_date_infected of the cured
CuredRows_clears_date(props, sel, now) ==
    [i \in People |->
        IF i \in sel
        THEN [props[i] EXCEPT !.tbl_is_infected = FALSE, !.tbl_date_cure = now,
                              !.tbl_date_infected = NaT]
        ELSE props[i]]

\* CuredRows without the write of tbl_date_cure
CuredRows_no_cure_date(props, sel, now) ==
    [i \in People |->
        IF i \in sel
        THEN [props[i] EXCEPT !.tbl_is_infected = FALSE]
        ELSE props[i]]

\* the rows after TblCureEvent.apply at date now selected sel
CuredRows(props, sel, now) ==
    [i \in People |->
        IF i \in sel
        THEN [props[i] EXCEPT !.tbl_is_infected = FALSE, !.tbl_date_cure = now]
        ELSE props[i]]

\* TblCureEvent.apply recording the prevalence as the infection event does
TblCureEvent_apply_records(now, sel) ==
    /\ UNCHANGED <<incidence_tb, onset, last_selected>>
    /\ last_cure' = now
    /\ sel \in Choice(parameters.p_cure, individuals_to_recover(df, now))
    /\ df' = CuredRows(df, sel, now)
    /\ prevalence_tb' = DictUpdate(prevalence_tb, now, NumInfected(df'))

\* TblCureEvent.apply with sim.date = now and the draw selecting sel
TblCureEvent_apply(now, sel) ==
    /\ UNCHANGED <<incidence_tb, prevalence_tb, onset, last_selected>>
    /\ last_cure' = now
    /\ sel \in Choice(parameters.p_cure, individuals_to_recover(df, now))
    /\ df' = CuredRows(df, sel, now)

\* the infection event fired at a date the caller chooses
FireInfection(now, sel) ==
    /\ pc = "running"
    /\ nfired < MaxFirings
    /\ now >= date
    /\ date' = now
    /\ nfired' = nfired + 1
    /\ TblInfectionEvent_apply(now, sel)
    /\ UNCHANGED <<pc, parameters, queue, summary>>

\* the cure event fired at a date the caller chooses
FireCure(now, sel) ==
    /\ pc = "running"
    /\ nfired < MaxFirings
    /\ now >= date
    /\ date' = now
    /\ nfired' = nfired + 1
    /\ TblCureEvent_apply(now, sel)
    /\ UNCHANGED <<pc, parameters, queue, summary>>

\* TblInfectionEvent.apply when rng.choice raises: the exception leaves
\* apply before its first write and ends the run
FireInfectionRaises(now) ==
    /\ pc = "running"
    /\ nfired < MaxFirings
    /\ now >= date
    /\ Choice(parameters.p_infection, People) = {}
    /\ pc' = "failed"
    /\ date' = now
    /\ UNCHANGED <<parameters, df, incidence_tb, prevalence_tb, queue, nfired,
                   onset, last_selected, last_cure,
                   summary>>

\* TblCureEvent.apply when rng.choice raises
FireCureRaises(now) ==
    /\ pc = "running"
    /\ nfired < MaxFirings
    /\ now >= date
    /\ Choice(parameters.p_cure, individuals_to_recover(df, now)) = {}
    /\ pc' = "failed"
    /\ date' = now
    /\ UNCHANGED <<parameters, df, incidence_tb, prevalence_tb, queue, nfired,
                   onset, last_selected, last_cure,
                   summary>>

\* the infection event run by the simulation's event queue: it is the (or
\* an) earliest scheduled event, sim.date becomes its date, apply runs and
\* the event is scheduled again at sim.date + frequency, one month on
RunInfection(sel) ==
    /\ pc = "running"
    /\ queue.infection # NaT
    /\ queue.infection <= queue.cure
    /\ queue.infection <= AddMonths(start_date, SchedMonths)
    /\ date' = queue.infection
    /\ nfired' = nfired + 1
    /\ TblInfectionEvent_apply(queue.infection, sel)
    /\ queue' = [queue EXCEPT !.infection = AddMonths(queue.infection, 1)]
    /\ UNCHANGED <<pc, parameters, summary>>

\* the cure event run by the simulation's event queue
RunCure(sel) ==
    /\ pc = "running"
    /\ queue.cure # NaT
    /\ queue.cure <= queue.infection
    /\ queue.cure <= AddMonths(start_date, SchedMonths)
    /\ date' = queue.cure
    /\ nfired' = nfired + 1
    /\ TblCureEvent_apply(queue.cure, sel)
    /\ queue' = [queue EXCEPT !.cure = AddMonths(queue.cure, 1)]
    /\ UNCHANGED <<pc, parameters, summary>>

on_simulation_end ==
    /\ pc = "running"
    /\ pc' = "ended"
    /\ summary' = DataFrame(Keys(incidence_tb), Values(incidence_tb),
                            Values(prevalence_tb), NumPeople)
    /\ UNCHANGED <<parameters, df, date, incidence_tb, prevalence_tb, queue,
                   nfired, onset, last_selected, last_cure>>

Next ==
    \/ read_parameters
    \/ initialise_population
    \/ \E o \in Overrides : override_parameter(o[1], o[2])
    \/ initialise_simulation
    \/ \E now \in FireDates, sel \in SUBSET People : FireInfection(now, sel)
    \/ \E now \in FireDates, sel \in SUBSET People : FireCure(now, sel)
    \/ on_simulation_end

Spec == Init /\ [][Next]_vars

\* the run of a caller that may also set a probability outside [0, 1]
\* before the run
NextOutOfRange ==
    \/ Next
    \/ \E o \in OutOfRangeOverrides :
          pc = "populated" /\ override_parameter(o[1], o[2])
    \/ \E now \in FireDates : FireInfectionRaises(now)
    \/ \E now \in FireDates : FireCureRaises(now)

SpecOutOfRange == Init /\ [][NextOutOfRange]_vars

\* the run of sim.simulate: the two events fire when the event queue reaches
\* them; the caller sets parameters before the run, and the end date is any
\* date up to SchedMonths months after the start
NextSched ==
    \/ read_parameters
    \/ initialise_population
    \/ \E o \in Overrides : pc = "populated" /\ override_parameter(o[1], o[2])
    \/ initialise_simulation
    \/ \E sel \in SUBSET People : RunInfection(sel)
    \/ \E sel \in SUBSET People : RunCure(sel)
    \/ on_simulation_end

SpecSched == Init /\ [][NextSched]_vars

\* ---------------------------------------------------------------- claims
\* A step is a firing of an event at date now exactly when it is a firing at
\* date' (the firing sets sim.date), so the claims about one firing
\* quantify over the draw only.
Selections == SUBSET People

\* C1: an infection firing leaves is_infected and date_infected of every
\* individual that was infected before the firing as they were.
C1_InfectionSparesInfected ==
    [][\A sel \in Selections :
          LET now == date' IN
          FireInfection(now, sel) =>
             \A i \in People :
                df[i].tbl_is_infected =>
                   /\ df'[i].tbl_is_infected = df[i].tbl_is_infected
                   /\ df'[i].tbl_date_infected = df[i].tbl_date_infected]_vars

\* C2: after an infection firing at date T, incidence_tb[T] is the number of
\* individuals whose is_infected went from false to true in the firing (0
\* when nobody was uninfected before it).
C2_IncidenceCountsNewInfections ==
    [][\A sel \in Selections :
          LET now == date' IN
          FireInfection(now, sel) =>
             /\ now \in DOMAIN incidence_tb'
             /\ incidence_tb'[now] =
                   Cardinality({i \in People : /\ ~df[i].tbl_is_infected
                                               /\ df'[i].tbl_is_infected})]_vars

\* C3: after an infection firing at date T, prevalence_tb[T] is the number of
\* infected individuals in the population as the firing leaves it.
C3_PrevalenceCountsInfectedAfter ==
    [][\A sel \in Selections :
          LET now == date' IN
          FireInfection(now, sel) =>
             /\ now \in DOMAIN prevalence_tb'
             /\ prevalence_tb'[now] =
                   Cardinality({i \in People : df'[i].tbl_is_infected})]_vars

\* an infection firing at the current date found one individual infected
\* earlier and infected another: the prevalence recorded counts both
C3_Witness ==
    /\ date \in DOMAIN prevalence_tb
    /\ prevalence_tb[date] >= 2
    /\ \E i, j \in People :
          /\ df[i].tbl_is_infected /\ df[i].tbl_date_infected < date
          /\ df[j].tbl_is_infected /\ onset[j] = date

C5_EligibleAfterOneMonth ==
    [][\A sel \in Selections :
          LET now == date' IN
          (FireCure(now, sel) /\ parameters.p_cure = 100) =>
             \A i \in People :
                ( /\ df[i].tbl_is_infected
                  /\ onset[i] # NaT
                  /\ now > AddMonths(onset[i], 1)
                  /\ (last_cure = NaT \/ last_cure <= AddMonths(onset[i], 1)) )
                => ~df'[i].tbl_is_infected]_vars

C7_InfectedDateNotInFuture ==
    \A i \in People :
       df[i].tbl_is_infected =>
          (df[i].tbl_date_infected # NaT /\ df[i].tbl_date_infected <= date)

\* one individual was infected before the current date, another at it
C7_Witness ==
    \E i, j \in People :
       /\ df[i].tbl_is_infected /\ df[i].tbl_date_infected < date
       /\ df[j].tbl_is_infected /\ df[j].tbl_date_infected = date

\* C8: a cure firing leaves incidence_tb and prevalence_tb as they were, and
\* every step that changes one of them is an infection firing.
C8_CureLeavesAccumulators ==
    [][/\ \A sel \in Selections :
             FireCure(date', sel) => UNCHANGED <<incidence_tb, prevalence_tb>>
       /\ (incidence_tb' # incidence_tb \/ prevalence_tb' # prevalence_tb) =>
             \E sel \in Selections : FireInfection(date', sel)]_vars

\* a cure firing cured an individual at a date without an entry, so the
\* latest prevalence recorded exceeds the number of infected individuals
C8_Witness ==
    /\ last_cure = date
    /\ date \notin DOMAIN prevalence_tb
    /\ date \notin DOMAIN incidence_tb
    /\ \E i \in People : ~df[i].tbl_is_infected /\ df[i].tbl_date_cure = date
    /\ \E d \in DOMAIN prevalence_tb : prevalence_tb[d] > NumInfected(df)

\* C9: a cure firing at date T sets is_infected = false and date_cured = T
\* for the selected eligible individuals only, keeps every date_infected and
\* keeps all three fields of the individuals not selected.
C9_CureFrame ==
    [][\A sel \in Selections :
          LET now == date' IN
          FireCure(now, sel) =>
             \A i \in People :
                /\ df'[i].tbl_date_infected = df[i].tbl_date_infected
                /\ i \in sel =>
                      /\ df[i].tbl_is_infected
                      /\ df[i].tbl_date_infected # NaT
                      /\ df[i].tbl_date_infected < AddMonths(now, -1)
                      /\ ~df'[i].tbl_is_infected
                      /\ df'[i].tbl_date_cure = now
                /\ i \notin sel => df'[i] = df[i]]_vars

\* a cure firing cured one individual, whose date_infected is still set,
\* and left another one infected
C9_Witness ==
    /\ last_cure = date
    /\ \E i, j \in People :
          /\ ~df[i].tbl_is_infected /\ df[i].tbl_date_cure = date
          /\ df[i].tbl_date_infected # NaT
          /\ df[j].tbl_is_infected

\* C10: with p_infection = 0.0 an infection firing changes no field of any
\* individual.
C10_ZeroProbabilityInfectsNobody ==
    [][\A sel \in Selections :
          LET now == date' IN
          (FireInfection(now, sel) /\ parameters.p_infection = 0) =>
             df' = df]_vars

\* an infection firing at the current date with p_infection = 0.0 recorded
\* no infection, in a population with infected and uninfected individuals
C10_Witness ==
    /\ pc = "running"
    /\ parameters.p_infection = 0
    /\ date \in DOMAIN incidence_tb
    /\ incidence_tb[date] = 0
    /\ \E i, j \in People :
          /\ df[i].tbl_is_infected /\ df[i].tbl_date_infected < date
          /\ ~df[j].tbl_is_infected

\* C12: when a probability is outside [0, 1] the run is stopped before a
\* firing takes effect: no population field and no accumulator has been
\* changed by a firing.
C12_OutOfRangeStopsBeforeFirings ==
    (pc # "constructed" /\ \E name \in DOMAIN parameters :
                              parameters[name] < 0 \/ parameters[name] > 100)
    => /\ df = [i \in People |-> InitialRow]
       /\ incidence_tb = EmptyDict
       /\ prevalence_tb = EmptyDict

\* the latest date at which the infection event has fired (NaT: none)
LastInfectionFiring ==
    IF DOMAIN incidence_tb = {} THEN NaT
    ELSE CHOOSE d \in DOMAIN incidence_tb : \A e \in DOMAIN incidence_tb : e <= d

\* C13: under the schedule of sim.simulate the first infection firing is one
\* month and the first cure firing two months after initialise_simulation
\* ran (at the start date); every later firing of an event is one month after
\* the event's previous firing; a cure firing is never the first firing.
C13_MonthlyFiringsInfectionFirst ==
    [][\A sel \in Selections :
          /\ RunInfection(sel) =>
                date' = AddMonths(IF LastInfectionFiring = NaT THEN start_date
                                  ELSE LastInfectionFiring, 1)
          /\ RunCure(sel) =>
                /\ date' = IF last_cure = NaT THEN AddMonths(start_date, 2)
                           ELSE AddMonths(last_cure, 1)
                /\ LastInfectionFiring # NaT]_vars

\* both events have fired twice
C13_Witness ==
    /\ Cardinality(DOMAIN incidence_tb) >= 2
    /\ last_cure = AddMonths(start_date, 3)

\* C14: under the schedule of sim.simulate an infection firing at date T adds
\* one entry keyed T, not present before, to incidence_tb and one to
\* prevalence_tb and leaves the entries of the other dates as they were; no
\* other step changes the two maps; so the two maps always have the same
\* dates, those of the infection firings.
C14_OneEntryPerInfectionFiring ==
    [][/\ \A sel \in Selections :
             RunInfection(sel) =>
                /\ date' \notin DOMAIN incidence_tb
                /\ date' \notin DOMAIN prevalence_tb
                /\ DOMAIN incidence_tb' = DOMAIN incidence_tb \cup {date'}
                /\ DOMAIN prevalence_tb' = DOMAIN prevalence_tb \cup {date'}
                /\ \A d \in DOMAIN incidence_tb : incidence_tb'[d] = incidence_tb[d]
                /\ \A d \in DOMAIN prevalence_tb : prevalence_tb'[d] = prevalence_tb[d]
       /\ (~ \E sel \in Selections : RunInfection(sel)) =>
             UNCHANGED <<incidence_tb, prevalence_tb>>
       /\ DOMAIN incidence_tb' = DOMAIN prevalence_tb']_vars

\* the infection event has fired at months 1 and 2, the cure event once
C14_Witness ==
    /\ pc = "running"
    /\ DOMAIN incidence_tb = {AddMonths(start_date, 1), AddMonths(start_date, 2)}
    /\ DOMAIN prevalence_tb = DOMAIN incidence_tb
    /\ last_cure = AddMonths(start_date, 2)

\* C15: the table built at the end of the simulation is built without error
\* and has exactly one row per date of incidence_tb, in particular no row
\* when no event ever fired.
C15_SummaryOneRowPerDate ==
    pc = "ended" =>
        /\ summary.status = "built"
        /\ Len(summary.rows) = Cardinality(DOMAIN incidence_tb)
        /\ \A d \in DOMAIN incidence_tb :
              \E n \in 1..Len(summary.rows) : summary.rows[n].date = d

\* the simulation ended before the first firing and the table is empty
C15_Witness ==
    /\ pc = "ended"
    /\ nfired = 0
    /\ incidence_tb = EmptyDict
    /\ summary = [status |-> "built", rows |-> <<>>]

\* C16: initialise_population called again on an initialised population,
\* before any firing, leaves the population as the first call left it: every
\* individual not infected, with no date of infection and no date of cure.
C16_InitialiseIdempotent ==
    [][(initialise_population /\ pc = "populated") =>
          /\ df' = df
          /\ \A i \in People :
                /\ df'[i].tbl_is_infected = FALSE
                /\ df'[i].tbl_date_infected = NaT
                /\ df'[i].tbl_date_cure = NaT]_vars

\* initialise_population can run a second time: the population is
\* initialised and nothing has fired
C16_Witness ==
    /\ pc = "populated"
    /\ nfired = 0
    /\ df = [i \in People |-> InitialRow]

\* C17: an infection firing leaves the date of cure of every individual as
\* it was, also of an individual cured earlier that it infects again.
C17_InfectionLeavesDateCure ==
    [][\A sel \in Selections :
          LET now == date'
          IN  FireInfection(now, sel) =>
                \A i \in People : df'[i].tbl_date_cure = df[i].tbl_date_cure]_vars

\* an individual cured earlier has just been infected again
C17_Witness ==
    \E i \in People :
        /\ df[i].tbl_is_infected
        /\ df[i].tbl_date_cure # NaT
        /\ df[i].tbl_date_infected = date
        /\ last_selected[i] = date
        /\ last_cure = df[i].tbl_date_cure

====
